---- MODULE Spec2Model ----
(***************************************************************************)
(* Verification model of the question-search core of teletubpax-api:       *)
(*   - utils.RetryWithBackoff and utils.isRetryable   (src/utils/retry.go) *)
(*     with the operation of SearchAnswer         (src/unnamed/part_013)   *)
(*   - BedrockKBClient.QueryMultipleKnowledgeBases and synthesizeAnswers   *)
(*                                           (src/unnamed/part_010)        *)
(*   - utils.CleanMarkdown                       (src/unnamed/part_000)    *)
(* Three specifications share the module: SpecRetry runs one call of       *)
(* RetryWithBackoff, SpecKB runs one call of QueryMultipleKnowledgeBases,  *)
(* SpecClassify runs one call of isRetryable.                              *)
(***************************************************************************)
EXTENDS Integers, Sequences, FiniteSets, TLC

VARIABLES
    \* ---- RetryWithBackoff(ctx, config, operation) ----
    config,        \* the RetryConfig argument
    pc,            \* position of the call: "loop", "inOp", "select", "returned"
    attempt,       \* the loop variable
    lastErr,       \* var lastErr error
    backoff,       \* backoff
    ctxDone,       \* the context has been cancelled (ctx.Done() is closed)
    retErr,        \* the error returned (meaningful when pc = "returned")
    attemptCount,  \* number of invocations of operation (the tests' counter)
    opReturns,     \* number of invocations of operation that have returned
    retryableFails,\* number of invocations that returned a transient error
    delays,        \* the durations handed to time.After, in order
    cancelAttempt, \* attemptCount when the context was cancelled, -1 before
    cancelPc,      \* pc when the context was cancelled, "none" before
    invokedAfterCancel, \* invocations of operation started after cancellation
    answer,        \* var answer string of SearchAnswer, set by its operation
    kbAnswer,      \* the answer the last successful source query returned
    \* ---- QueryMultipleKnowledgeBases(ctx, question, enable) ----
    knowledgeBaseIds, \* c.knowledgeBaseIds, the configured sources in order
    kbPc,          \* position of the call
    launched,      \* number of goroutines started by the launch loop
    taskPc,        \* per source index: "idle", "querying", "sending", "done"
                   \* ("panic": the goroutine sent on a closed channel)
    taskResult,    \* per source index: the kbResult the task built
    results,       \* the buffered channel, a FIFO of kbResult
    closed,        \* close(results) has been executed
    wg,            \* the sync.WaitGroup counter
    merged,        \* the state of the collection loop after it ran
    synthCalls,    \* calls of synthesizeAnswers
    queryCalls,    \* per source index: calls of queryKnowledgeBaseById made
    synthRet,      \* the (text, err) synthesizeAnswers returned
    kbRet,         \* the (answer, documents, err) returned
    \* ---- isRetryable(err) ----
    classifyErr,   \* the err argument
    classifyPc,    \* position of the call: "called", "returned"
    classifyRet,   \* the bool returned
    \* ---- AnalyzeDocuments / GetLastUpdateDocuments ----
    ranking,       \* which of the two functions runs
    documentUrls,  \* the identifiers handed in, in order
    lastModified,  \* per identifier: lastModifiedUnix of its metadata
    documents,     \* the documents slice
    docPc,         \* position of the call
    docIndex,      \* the loop variable i of the comparison loop
    olderIndex,    \* per document: index findOlderVersion returned, 0 = nil
    \* ---- QuestionSearchHandler.Handle(w, r) ----
    request,       \* the request: Content-Type header and body
    maxQuestionLength, \* h.maxQuestionLength
    handlerPc,     \* position of the call
    question,      \* request.Question after json.Unmarshal
    serviceCalls,  \* calls of h.service.SearchAnswer (the tests' callCount)
    serviceRet,    \* what SearchAnswer returned
    status         \* the status code written, 0 = none yet

retryVars == <<config, pc, attempt, lastErr, backoff, ctxDone, retErr,
               attemptCount, opReturns, retryableFails, delays,
               cancelAttempt, cancelPc, invokedAfterCancel, answer, kbAnswer>>
kbVars == <<knowledgeBaseIds, kbPc, launched, taskPc, taskResult, results,
            closed, wg, merged, synthCalls, queryCalls, synthRet, kbRet>>
classifyVars == <<classifyErr, classifyPc, classifyRet>>
docVars == <<ranking, documentUrls, lastModified, documents, docPc, docIndex,
             olderIndex>>
handlerVars == <<request, maxQuestionLength, handlerPc, question,
                 serviceCalls, serviceRet, status>>
vars == <<retryVars, kbVars, classifyVars, docVars, handlerVars>>

(***************************************************************************)
(* Bounds of the model.                                                    *)
(***************************************************************************)
\* largest RetryConfig.MaxAttempts explored (0 .. MaxAttemptsBound)
MaxAttemptsBound == 10
\* width in bits of time.Duration in the model (int64 in the program; TLC
\* integers are 32 bits wide, so the width is scaled down, the arithmetic is
\* the program's)
DurBits == 7
\* width in bits of the float64 significand in the model (53 in the program)
MantBits == 4
\* largest number of configured knowledge bases
MaxKB == 3
\* deepest nesting of BedrockError causes in the errors handed to isRetryable
MaxWrapDepth == 2
\* largest number of document identifiers handed to the document functions
MaxDocs == 3
\* largest maxQuestionLength the handler is configured with
MaxQuestion == 3

MinDuration == -(2^(DurBits - 1))
MaxDuration == 2^(DurBits - 1) - 1

(***************************************************************************)
(* errors: the error values of the program.                                *)
(***************************************************************************)
ErrCodeValidation == "VALIDATION_ERROR"
ErrCodeEmbedding == "EMBEDDING_ERROR"
ErrCodeKnowledgeBase == "KB_ERROR"
ErrCodeThrottling == "THROTTLING_ERROR"
ErrCodeAWSService == "AWS_SERVICE_ERROR"

\* the nil error
NilErr == [kind |-> "nil"]
\* an error without structured code (errors.New, fmt.Errorf)
PlainErr(m) == [kind |-> "plain", msg |-> m]
\* &BedrockError{Code, Message, Cause}
BedrockError(c, m, cause) ==
    [kind |-> "bedrock", code |-> c, msg |-> m, cause |-> cause]

NewValidationError(m) == BedrockError(ErrCodeValidation, m, NilErr)
NewEmbeddingError(m, cause) == BedrockError(ErrCodeEmbedding, m, cause)
NewKnowledgeBaseError(m, cause) == BedrockError(ErrCodeKnowledgeBase, m, cause)
NewThrottlingError(m, cause) == BedrockError(ErrCodeThrottling, m, cause)
NewAWSServiceError(m, cause) == BedrockError(ErrCodeAWSService, m, cause)

\* (e *BedrockError) Error(), and the message of a plain error
RECURSIVE ErrorString(_)
ErrorString(e) ==
    IF e.kind = "plain" THEN e.msg
    ELSE IF e.cause # NilErr
         THEN "[" \o e.code \o "] " \o e.msg \o ": " \o ErrorString(e.cause)
         ELSE "[" \o e.code \o "] " \o e.msg

\* context.Canceled, what ctx.Err() returns after cancel()
CtxCanceled == PlainErr("context canceled")

(***************************************************************************)
(* utils.contains, utils.findSubstring, utils.isRetryable                  *)
(***************************************************************************)
findSubstring(s, substr) ==
    \E i \in 0..(Len(s) - Len(substr)) :
        SubSeq(s, i + 1, i + Len(substr)) = substr

\* no search in the middle of s
containsAtEnds(s, substr) ==
    /\ Len(s) >= Len(substr)
    /\ \/ s = substr
       \/ /\ Len(s) > Len(substr)
          /\ \/ SubSeq(s, 1, Len(substr)) = substr
             \/ SubSeq(s, Len(s) - Len(substr) + 1, Len(s)) = substr

contains(s, substr) ==
    /\ Len(s) >= Len(substr)
    /\ \/ s = substr
       \/ /\ Len(s) > Len(substr)
          /\ \/ SubSeq(s, 1, Len(substr)) = substr
             \/ SubSeq(s, Len(s) - Len(substr) + 1, Len(s)) = substr
             \/ findSubstring(s, substr)

retryablePatterns ==
    <<"timeout", "Timeout", "ServiceUnavailable", "InternalServer",
      "TooManyRequests", "Throttling">>

RetryableAlways(err) == TRUE

\* the structured code is ignored, only the text is matched
RetryableByMessage(err) ==
    /\ err # NilErr
    /\ \E i \in 1..Len(retryablePatterns) :
          contains(ErrorString(err), retryablePatterns[i])

RECURSIVE isRetryable(_)
isRetryable(err) ==
    IF err = NilErr THEN FALSE
    ELSE IF err.kind = "bedrock" /\ err.code = ErrCodeThrottling THEN TRUE
    ELSE IF err.kind = "bedrock" /\ err.code = ErrCodeAWSService THEN TRUE
    ELSE IF err.kind = "bedrock" /\ err.code = ErrCodeValidation THEN FALSE
    ELSE IF err.kind = "bedrock"
            /\ err.code \in {ErrCodeEmbedding, ErrCodeKnowledgeBase}
         THEN IF err.cause # NilErr THEN isRetryable(err.cause) ELSE FALSE
    ELSE \E i \in 1..Len(retryablePatterns) :
             contains(ErrorString(err), retryablePatterns[i])

(***************************************************************************)
(* backoff = time.Duration(float64(backoff) * config.BackoffMultiplier)    *)
(* Floating-point values are kept exactly, as integers counting quarters.  *)
(* config.BackoffMultiplier is kept as MultHalves, twice its value, so 1.0,*)
(* 1.5 and 2.0 are 2, 3 and 4.                                             *)
(***************************************************************************)
Abs(x) == IF x < 0 THEN -x ELSE x

RECURSIVE Log2Floor(_)
Log2Floor(n) == IF n < 2 THEN 0 ELSE 1 + Log2Floor(n \div 2)

\* the natural q rounded to the nearest multiple of u, ties to the even multiple
RoundHalfEven(q, u) ==
    LET k == q \div u
        r == q - k * u
    IN  IF 2 * r < u THEN k * u
        ELSE IF 2 * r > u THEN (k + 1) * u
        ELSE IF k % 2 = 0 THEN k * u ELSE (k + 1) * u

\* the floating-point value nearest to q quarters: MantBits significant bits,
\* round to nearest, ties to even (IEEE 754 default rounding)
FloatRound(q) ==
    LET a == Abs(q)
        sh == Log2Floor(a) - MantBits + 1
        r == IF sh > 0 THEN RoundHalfEven(a, 2^sh) ELSE a
    IN  IF q < 0 THEN -r ELSE r

\* float64(d) for a Duration d
ToFloat(d) == FloatRound(4 * d)

\* the floating-point product f * multiplier
FloatMul(f, multHalves) == FloatRound((f * multHalves) \div 2)

\* time.Duration(f): truncation toward zero; when the value does not fit the
\* integer type the result is implementation-dependent (Go specification,
\* Conversions): amd64 yields the minimum integer, arm64 saturates
ToDuration(f) ==
    LET t == IF f < 0 THEN -((-f) \div 4) ELSE f \div 4
    IN  IF t > MaxDuration THEN {MinDuration, MaxDuration}
        ELSE IF t < MinDuration THEN {MinDuration}
        ELSE {t}

\* lines 59-62: the values backoff can take after one sleep
NextBackoff(b, cfg) ==
    { IF d > cfg.MaxBackoff THEN cfg.MaxBackoff ELSE d :
        d \in ToDuration(FloatMul(ToFloat(b), cfg.MultHalves)) }

(***************************************************************************)
(* The inputs of RetryWithBackoff.                                         *)
(***************************************************************************)
\* (InitialBackoff, 2 * BackoffMultiplier, MaxBackoff)
BackoffConfigs ==
    { <<1, 4, 10>>,                              \* the tests' 1ms, 2.0, 10ms
      <<3, 3, MaxDuration>>,                     \* multiplier 1.5
      <<2^MantBits + 1, 2, 2^MantBits + 1>>,     \* multiplier 1.0, a period that
                                                 \* float64 does not hold exactly
      <<2^(DurBits - 2), 4, 2^(DurBits - 2)>>,   \* 2 * MaxBackoff overflows
      <<0, 4, 10>> }                             \* outside the contract: no sleep

RetryConfigs ==
    { [MaxAttempts |-> n, InitialBackoff |-> b[1], MultHalves |-> b[2],
       MaxBackoff |-> b[3]] : n \in 0..MaxAttemptsBound, b \in BackoffConfigs }

(***************************************************************************)
(* BedrockKBClient.handleAWSError (src/unnamed/part_010 lines 419-447):    *)
(* the error QueryKnowledgeBase returns for a raw failure of the SDK.      *)
(***************************************************************************)
handleAWSError(err) ==
    LET errMsg == ErrorString(err)
    IN  IF contains(errMsg, "ValidationException")
           \/ contains(errMsg, "invalid")
        THEN NewValidationError("invalid knowledge base query: " \o errMsg)
        ELSE IF contains(errMsg, "ThrottlingException")
                \/ contains(errMsg, "TooManyRequestsException")
        THEN NewThrottlingError("knowledge base service throttled", err)
        ELSE IF contains(errMsg, "AccessDeniedException")
                \/ contains(errMsg, "UnauthorizedException")
        THEN NewAWSServiceError("invalid or missing AWS credentials", err)
        ELSE IF contains(errMsg, "ResourceNotFoundException")
        THEN NewKnowledgeBaseError("resource not found: " \o errMsg, err)
        ELSE IF contains(errMsg, "ServiceUnavailableException")
                \/ contains(errMsg, "InternalServerException")
        THEN NewAWSServiceError("knowledge base service unavailable", err)
        ELSE IF contains(errMsg, "TimeoutException")
                \/ contains(errMsg, "timeout")
        THEN NewAWSServiceError("knowledge base query timeout", err)
        ELSE NewKnowledgeBaseError("knowledge base query failed", err)

\* raw failures of a source that does not exist, as the SDK reports them:
\* the exception name followed by the service's text
RawNotFoundErrors ==
    { PlainErr("ResourceNotFoundException: KB not found"),
      PlainErr("ResourceNotFoundException: lookup timeout") }

\* what one invocation of operation can return
OpErrors ==
    { NilErr,
      NewThrottlingError("throttled", NilErr),
      NewAWSServiceError("service error", NilErr),
      NewValidationError("invalid input"),
      NewKnowledgeBaseError("knowledge base query failed",
                            PlainErr("request timeout")),
      NewKnowledgeBaseError("knowledge base not found", NilErr),
      PlainErr("ServiceUnavailable"),
      PlainErr("boom") }
    \cup { handleAWSError(raw) : raw \in RawNotFoundErrors }

\* the outcomes that are transient failures (throttling, 5xx, timeouts) ...
TransientOpErrors ==
    { NewThrottlingError("throttled", NilErr),
      NewAWSServiceError("service error", NilErr),
      NewKnowledgeBaseError("knowledge base query failed",
                            PlainErr("request timeout")),
      PlainErr("ServiceUnavailable"),
      \* isRetryable follows the cause of a KB_ERROR and matches its text
      handleAWSError(PlainErr("ResourceNotFoundException: lookup timeout")) }

\* ... and those that are permanent failures
PermanentOpErrors ==
    { NewValidationError("invalid input"),
      NewKnowledgeBaseError("knowledge base not found", NilErr),
      handleAWSError(PlainErr("ResourceNotFoundException: KB not found")),
      PlainErr("boom") }

(***************************************************************************)
(* RetryWithBackoff (src/utils/retry.go lines 26-67).                      *)
(***************************************************************************)
\* what the source query of SearchAnswer's operation answers when it succeeds
\* (the mock client of the service tests)
KBAnswers == {"mock answer", "answer for q"}

RetryInit ==
    /\ config \in RetryConfigs
    /\ pc = "loop"
    /\ attempt = 1
    /\ lastErr = NilErr
    /\ backoff = config.InitialBackoff
    /\ ctxDone = FALSE
    /\ retErr = NilErr
    /\ attemptCount = 0
    /\ opReturns = 0
    /\ retryableFails = 0
    /\ delays = <<>>
    /\ cancelAttempt = -1
    /\ cancelPc = "none"
    /\ invokedAfterCancel = 0
    /\ answer = ""
    /\ kbAnswer = ""

\* line 30: the loop condition
LoopConditionStrict(a, cfg) == a < cfg.MaxAttempts

LoopCondition(a, cfg) == a <= cfg.MaxAttempts

\* lines 33-45: what the loop body does with the result of operation()
AfterOperationSuccessContinues(err, a, cfg) ==
    IF err # NilErr /\ ~isRetryable(err) THEN "returnErr"
    ELSE IF a = cfg.MaxAttempts THEN "break"
    ELSE "sleep"

AfterOperationNoLastCheck(err, a, cfg) ==
    IF err = NilErr THEN "returnNil"
    ELSE IF ~isRetryable(err) THEN "returnErr"
    ELSE "sleep"

AfterOperation(err, a, cfg) ==
    IF err = NilErr THEN "returnNil"
    ELSE IF ~isRetryable(err) THEN "returnErr"
    ELSE IF a = cfg.MaxAttempts THEN "break"
    ELSE "sleep"

\* lines 52-56: the cases of the select that can be taken.  ctx.Done() is
\* ready once the context is cancelled.  The timer of time.After(b) with b > 0
\* has not expired when the select is entered, so with the context already
\* cancelled only ctx.Done() is ready, and a goroutine parked in the select is
\* woken by whichever of the two happens first; with b <= 0 the timer expires
\* at once and the select chooses among the ready cases.
TimerCanWinAlways(done, b) == TRUE

TimerCanWin(done, b) == ~done \/ b <= 0

DoneCanWin(done) == done

\* line 54: the value returned when ctx.Done() wins
DoneReturn(err) == CtxCanceled

\* line 30 (condition true) and line 31: operation is invoked
CallOperation ==
    /\ pc = "loop"
    /\ LoopCondition(attempt, config)
    /\ pc' = "inOp"
    /\ attemptCount' = attemptCount + 1
    /\ invokedAfterCancel' = IF ctxDone THEN invokedAfterCancel + 1
                             ELSE invokedAfterCancel
    /\ UNCHANGED <<kbVars, classifyVars, docVars, handlerVars, answer, kbAnswer, opReturns, config, attempt, lastErr, backoff, ctxDone, retErr,
                   retryableFails, delays, cancelAttempt, cancelPc>>

\* line 30 (condition false), lines 65-66: attempts exhausted by the loop test
LoopExit ==
    /\ pc = "loop"
    /\ ~LoopCondition(attempt, config)
    /\ pc' = "returned"
    /\ retErr' = lastErr
    /\ UNCHANGED <<kbVars, classifyVars, docVars, handlerVars, answer, kbAnswer, opReturns, config, attempt, lastErr, backoff, ctxDone, attemptCount,
                   retryableFails, delays, cancelAttempt, cancelPc,
                   invokedAfterCancel>>

\* lines 31-49: operation returns err; the loop body runs up to the select
OperationReturns(err) ==
    /\ pc = "inOp"
    /\ lastErr' = err
    /\ opReturns' = opReturns + 1
    /\ retryableFails' = IF err \in TransientOpErrors THEN retryableFails + 1
                         ELSE retryableFails
    \* SearchAnswer's operation: ans, err := QueryKnowledgeBase(...);
    \* on success answer = ans
    /\ kbAnswer' \in IF err = NilErr THEN KBAnswers ELSE {kbAnswer}
    /\ answer' = IF err = NilErr THEN kbAnswer' ELSE answer
    /\ LET what == AfterOperation(err, attempt, config)
       IN  \/ /\ what = "returnNil"
              /\ pc' = "returned"
              /\ retErr' = NilErr
              /\ delays' = delays
           \/ /\ what \in {"returnErr", "break"}
              /\ pc' = "returned"
              /\ retErr' = err
              /\ delays' = delays
           \/ /\ what = "sleep"
              /\ pc' = "select"
              /\ retErr' = retErr
              /\ delays' = Append(delays, backoff)
    /\ UNCHANGED <<kbVars, classifyVars, docVars, handlerVars, config, attempt, backoff, ctxDone,
                   attemptCount, cancelAttempt, cancelPc, invokedAfterCancel>>

\* lines 53-54: case <-ctx.Done(): return ctx.Err()
SelectDone ==
    /\ pc = "select"
    /\ DoneCanWin(ctxDone)
    /\ pc' = "returned"
    /\ retErr' = DoneReturn(lastErr)
    /\ UNCHANGED <<kbVars, classifyVars, docVars, handlerVars, answer, kbAnswer, opReturns, config, attempt, lastErr, backoff, ctxDone, attemptCount,
                   retryableFails, delays, cancelAttempt, cancelPc,
                   invokedAfterCancel>>

\* lines 55-62 and the loop increment: case <-time.After(backoff)
SelectTimer ==
    /\ pc = "select"
    /\ TimerCanWin(ctxDone, backoff)
    /\ backoff' \in NextBackoff(backoff, config)
    /\ attempt' = attempt + 1
    /\ pc' = "loop"
    /\ UNCHANGED <<kbVars, classifyVars, docVars, handlerVars, answer, kbAnswer, opReturns, config, lastErr, ctxDone, retErr, attemptCount,
                   retryableFails, delays, cancelAttempt, cancelPc,
                   invokedAfterCancel>>

\* the caller (or operation itself, as in
\* TestRetryWithBackoff_ContextCancellation) cancels the context
Cancel ==
    /\ pc # "returned"
    /\ ~ctxDone
    /\ ctxDone' = TRUE
    /\ cancelAttempt' = attemptCount
    /\ cancelPc' = pc
    /\ UNCHANGED <<kbVars, classifyVars, docVars, handlerVars, answer, kbAnswer, opReturns, config, pc, attempt, lastErr, backoff, retErr,
                   attemptCount, retryableFails, delays, invokedAfterCancel>>

NextRetry ==
    \/ CallOperation
    \/ LoopExit
    \/ \E err \in OpErrors : OperationReturns(err)
    \/ SelectDone
    \/ SelectTimer
    \/ Cancel

\* isRetryable is not being called on its own
ClassifyIdle ==
    /\ classifyErr = NilErr
    /\ classifyPc = "idle"
    /\ classifyRet = FALSE

\* AnalyzeDocuments and GetLastUpdateDocuments are not running
DocsIdle ==
    /\ ranking = "none"
    /\ documentUrls = <<>>
    /\ lastModified = <<>>
    /\ documents = <<>>
    /\ docPc = "idle"
    /\ docIndex = 0
    /\ olderIndex = <<>>

\* no request is being handled
HandlerIdle ==
    /\ request = <<>>
    /\ maxQuestionLength = 0
    /\ handlerPc = "idle"
    /\ question = ""
    /\ serviceCalls = 0
    /\ serviceRet = <<>>
    /\ status = 0

\* the other call is not running
KBIdle ==
    /\ knowledgeBaseIds = <<>>
    /\ kbPc = "idle"
    /\ launched = 0
    /\ taskPc = <<>>
    /\ taskResult = <<>>
    /\ results = <<>>
    /\ closed = FALSE
    /\ wg = 0
    /\ merged = <<>>
    /\ synthCalls = 0
    /\ queryCalls = <<>>
    /\ synthRet = <<>>
    /\ kbRet = <<>>

\* SearchAnswer (src/unnamed/part_013 lines 445-462): what it returns once
\* RetryWithBackoff has returned retErr
SearchAnswerDropsAnswer(e, a) ==
    [answer |-> "", err |-> e]

SearchAnswerReturn(e, a) ==
    IF e # NilErr THEN [answer |-> "", err |-> e]
    ELSE [answer |-> a, err |-> NilErr]

InitRetry == RetryInit /\ KBIdle /\ ClassifyIdle /\ DocsIdle /\ HandlerIdle
SpecRetry == InitRetry /\ [][NextRetry]_vars

(***************************************************************************)
(* BedrockKBClient.QueryMultipleKnowledgeBases                             *)
(* (src/unnamed/part_010 lines 195-289).                                   *)
(***************************************************************************)
\* the "not found" answer of queryKnowledgeBaseById (a fixed Thai sentence)
NotFoundAnswer == "NOT_FOUND"

\* the configured source lists: <<>>, <<"kb1">>, <<"kb1", "kb2">>, ...
KBIds == <<"kb1", "kb2", "kb3", "kb4", "kb5">>
KBConfigs == { SubSeq(KBIds, 1, n) : n \in 0..MaxKB }

N == Len(knowledgeBaseIds)

\* handleAWSError: errors a source query can fail with
QueryErrors ==
    { NewThrottlingError("knowledge base service throttled",
                         PlainErr("ThrottlingException")),
      NewKnowledgeBaseError("knowledge base not found",
                            PlainErr("ResourceNotFoundException")) }

\* what queryKnowledgeBaseById can return: (answer, documents, err)
QueryResults ==
    { [answer |-> "", documents |-> <<>>, err |-> e] : e \in QueryErrors }
    \cup
    { [answer |-> x[1], documents |-> x[2], err |-> NilErr] :
        x \in { <<"A", <<"2025/05/fee-1.pdf">> >>,
                <<"B", <<"2025/05/fee-2.pdf", "2025/05/fee-1.pdf">> >>,
                <<NotFoundAnswer, <<"2025/11/loan-1.pdf">> >>,
                <<"", <<>> >> } }

(***************************************************************************)
(* utils.CleanMarkdown (src/unnamed/part_000), on strings of characters.   *)
(***************************************************************************)
At(s, i) == SubSeq(s, i, i)

\* the characters of the class \s
Spaces == {" ", "\n", "\t", "\r", "\f"}

\* the first position >= i of s whose character is not in cs
RECURSIVE SkipWhile(_, _, _)
SkipWhile(s, i, cs) ==
    IF i <= Len(s) /\ At(s, i) \in cs THEN SkipWhile(s, i + 1, cs) ELSE i

\* the first position >= i of s whose character is c
RECURSIVE SkipUntil(_, _, _)
SkipUntil(s, i, c) ==
    IF i <= Len(s) /\ At(s, i) # c THEN SkipUntil(s, i + 1, c) ELSE i

\* line 11: (?m)^#+\s* replaced by "", from position i on
RECURSIVE RemoveHeaders(_, _)
RemoveHeaders(s, i) ==
    IF i > Len(s) THEN ""
    ELSE IF At(s, i) = "#" /\ (i = 1 \/ At(s, i - 1) = "\n")
         THEN RemoveHeaders(s, SkipWhile(s, SkipWhile(s, i, {"#"}), Spaces))
         ELSE At(s, i) \o RemoveHeaders(s, i + 1)

\* lines 14-17: d([^c]+)d replaced by $1, c the character of the marker d
RECURSIVE Unwrap(_, _, _)
Unwrap(s, i, d) ==
    IF i > Len(s) THEN ""
    ELSE LET b == i + Len(d)
             e == SkipUntil(s, b, At(d, 1))
         IN  IF /\ e + Len(d) - 1 <= Len(s)
                /\ SubSeq(s, i, b - 1) = d
                /\ e > b
                /\ SubSeq(s, e, e + Len(d) - 1) = d
             THEN SubSeq(s, b, e - 1) \o Unwrap(s, e + Len(d), d)
             ELSE At(s, i) \o Unwrap(s, i + 1, d)

\* lines 20 and 26: every maximal run of at least min characters of cs is
\* replaced by r
RECURSIVE ReplaceRuns(_, _, _, _, _)
ReplaceRuns(s, i, cs, min, r) ==
    IF i > Len(s) THEN ""
    ELSE LET e == SkipWhile(s, i, cs)
         IN  IF e - i >= min THEN r \o ReplaceRuns(s, e, cs, min, r)
             ELSE IF e > i
             THEN SubSeq(s, i, e - 1) \o ReplaceRuns(s, e, cs, min, r)
             ELSE At(s, i) \o ReplaceRuns(s, i + 1, cs, min, r)

\* line 23: strings.ReplaceAll(text, c, r) for a character c
RECURSIVE ReplaceAll(_, _, _, _)
ReplaceAll(s, i, c, r) ==
    IF i > Len(s) THEN ""
    ELSE (IF At(s, i) = c THEN r ELSE At(s, i)) \o ReplaceAll(s, i + 1, c, r)

\* line 29: strings.TrimSpace
RECURSIVE TrimRight(_)
TrimRight(s) ==
    IF Len(s) > 0 /\ At(s, Len(s)) \in Spaces
    THEN TrimRight(SubSeq(s, 1, Len(s) - 1))
    ELSE s

TrimSpace(s) == TrimRight(SubSeq(s, SkipWhile(s, 1, Spaces), Len(s)))

CleanMarkdown(text) ==
    LET t1 == RemoveHeaders(text, 1)
        t2 == Unwrap(t1, 1, "**")
        t3 == Unwrap(t2, 1, "__")
        t4 == Unwrap(t3, 1, "*")
        t5 == Unwrap(t4, 1, "_")
        t6 == ReplaceRuns(t5, 1, {"\n"}, 2, " ")
        t7 == ReplaceAll(t6, 1, "\n", " ")
        t8 == ReplaceRuns(t7, 1, Spaces, 1, " ")
    IN  TrimSpace(t8)

(***************************************************************************)
(* BedrockKBClient.synthesizeAnswers (src/unnamed/part_010 lines 291-397). *)
(***************************************************************************)
\* what runtimeClient.Converse can return: err, or an output whose Output is
\* nil ("nil"), a message with content blocks ("message"), or another member
ConverseBlocks ==
    { <<>>,
      <<[type |-> "image", value |-> ""]>>,
      <<[type |-> "text", value |-> "S"]>>,
      <<[type |-> "text", value |-> "## S\n\n**A** and _B_\n"]>>,
      <<[type |-> "text", value |-> ""]>>,
      <<[type |-> "text", value |-> "\n"]>> }

ConverseOutputs ==
    { [err |-> PlainErr("ThrottlingException"), kind |-> "nil",
       content |-> <<>>],
      [err |-> NilErr, kind |-> "nil", content |-> <<>>],
      [err |-> NilErr, kind |-> "other", content |-> <<>>] }
    \cup
    { [err |-> NilErr, kind |-> "message", content |-> c] :
        c \in ConverseBlocks }

\* lines 374-397: (text, err) returned for the output of Converse
synthesizeAnswers(out) ==
    IF out.err # NilErr
    THEN [text |-> "",
          err |-> PlainErr("synthesis converse API failed: " \o out.err.msg)]
    ELSE IF /\ out.kind = "message"
            /\ Len(out.content) > 0
            /\ out.content[1].type = "text"
    THEN [text |-> CleanMarkdown(out.content[1].value), err |-> NilErr]
    ELSE [text |-> "", err |-> PlainErr("no synthesis output received")]

\* lines 229-234: the variables of the collection loop before it runs; seen
\* records the results the loop has received, in the order received
CollectInit ==
    [combinedAnswer |-> "", allDocuments |-> <<>>, successCount |-> 0,
     lastError |-> NilErr, seen |-> <<>>]

\* lines 253-258: append the documents not yet in documentSet
AppendAll(all, docs) == all \o docs

RECURSIVE AppendNew(_, _)
AppendNew(all, docs) ==
    IF docs = <<>> THEN all
    ELSE AppendNew(IF \E i \in 1..Len(all) : all[i] = Head(docs)
                   THEN all ELSE Append(all, Head(docs)),
                   Tail(docs))

\* lines 237-258: one iteration of the collection loop
CollectStepFirstError(st, r) ==
    IF r.err # NilErr
    THEN [st EXCEPT !.lastError = IF @ = NilErr THEN r.err ELSE @,
                    !.seen = Append(@, r)]
    ELSE [st EXCEPT
            !.successCount = @ + 1,
            !.combinedAnswer =
                IF r.answer # "" /\ r.answer # NotFoundAnswer
                THEN (IF Len(@) > 0 THEN @ \o "\n\n" ELSE @) \o r.answer
                ELSE @,
            !.allDocuments = AppendNew(@, r.documents),
            !.seen = Append(@, r)]

CollectStepKeepsSentinel(st, r) ==
    IF r.err # NilErr
    THEN [st EXCEPT !.lastError = r.err, !.seen = Append(@, r)]
    ELSE [st EXCEPT
            !.successCount = @ + 1,
            !.combinedAnswer =
                IF r.answer # ""
                THEN (IF Len(@) > 0 THEN @ \o "\n\n" ELSE @) \o r.answer
                ELSE @,
            !.allDocuments = AppendNew(@, r.documents),
            !.seen = Append(@, r)]

CollectStep(st, r) ==
    IF r.err # NilErr
    THEN [st EXCEPT !.lastError = r.err, !.seen = Append(@, r)]
    ELSE [st EXCEPT
            !.successCount = @ + 1,
            !.combinedAnswer =
                IF r.answer # "" /\ r.answer # NotFoundAnswer
                THEN (IF Len(@) > 0 THEN @ \o "\n\n" ELSE @) \o r.answer
                ELSE @,
            !.allDocuments = AppendNew(@, r.documents),
            !.seen = Append(@, r)]

\* lines 236-259: for result := range results, over the closed channel
RECURSIVE CollectLoop(_, _)
CollectLoop(st, rs) ==
    IF rs = <<>> THEN st
    ELSE CollectLoop(CollectStep(st, Head(rs)), Tail(rs))

\* line 226: wg.Wait() returns when the counter is zero
WaitReadyOffByOne(w) == w <= 1

WaitReady(w) == w = 0

\* line 262: if successCount == 0
AnyFailed(st) == st.lastError # NilErr

AllFailed(st) == st.successCount = 0

KBInit ==
    /\ knowledgeBaseIds \in KBConfigs
    /\ kbPc = "start"
    /\ launched = 0
    /\ taskPc = [i \in 1..Len(knowledgeBaseIds) |-> "idle"]
    /\ taskResult = [i \in 1..Len(knowledgeBaseIds) |-> <<>>]
    /\ results = <<>>
    /\ closed = FALSE
    /\ wg = 0
    /\ merged = CollectInit
    /\ synthCalls = 0
    /\ queryCalls = [i \in 1..Len(knowledgeBaseIds) |-> 0]
    /\ synthRet = <<>>
    /\ kbRet = <<>>

\* the other call is not running
RetryIdle ==
    /\ config = [MaxAttempts |-> 0, InitialBackoff |-> 0, MultHalves |-> 2,
                 MaxBackoff |-> 0]
    /\ pc = "idle"
    /\ attempt = 1
    /\ lastErr = NilErr
    /\ backoff = 0
    /\ ctxDone = FALSE
    /\ retErr = NilErr
    /\ attemptCount = 0
    /\ opReturns = 0
    /\ retryableFails = 0
    /\ delays = <<>>
    /\ cancelAttempt = -1
    /\ cancelPc = "none"
    /\ invokedAfterCancel = 0
    /\ answer = ""
    /\ kbAnswer = ""

\* line 197: what the call returns when no source is configured
NoSourcesReturnNil == [answer |-> "", documents |-> <<>>, err |-> NilErr]

NoSourcesReturn ==
    [answer |-> "", documents |-> <<>>,
     err |-> PlainErr("no knowledge base IDs configured")]

\* lines 196-198: no source configured, fail at once
ReturnNoSources ==
    /\ kbPc = "start"
    /\ N = 0
    /\ kbPc' = "returned"
    /\ kbRet' = NoSourcesReturn
    /\ UNCHANGED <<retryVars, classifyVars, docVars, handlerVars, knowledgeBaseIds, launched, taskPc,
                   taskResult, results, closed, wg, merged, synthCalls,
                   queryCalls, synthRet>>

\* lines 207-223: one iteration of the launch loop: wg.Add(1), go func; after
\* the last one the main goroutine is at wg.Wait() (line 226)
LaunchTask ==
    /\ kbPc = "start"
    /\ N > 0
    /\ launched < N
    /\ launched' = launched + 1
    /\ wg' = wg + 1
    /\ taskPc' = [taskPc EXCEPT ![launched + 1] = "querying"]
    /\ kbPc' = IF launched + 1 = N THEN "wait" ELSE "start"
    /\ UNCHANGED <<retryVars, classifyVars, docVars, handlerVars, knowledgeBaseIds, taskResult,
                   results, closed, merged, synthCalls, queryCalls, synthRet,
                   kbRet>>

\* line 215: the query of source i returns; lines 216-221 build the kbResult
TaskQueryReturns(i, r) ==
    /\ taskPc[i] = "querying"
    /\ taskResult' = [taskResult EXCEPT ![i] =
                        [answer |-> r.answer, documents |-> r.documents,
                         err |-> r.err, kbId |-> knowledgeBaseIds[i]]]
    /\ taskPc' = [taskPc EXCEPT ![i] = "sending"]
    /\ queryCalls' = [queryCalls EXCEPT ![i] = @ + 1]
    /\ UNCHANGED <<retryVars, classifyVars, docVars, handlerVars, knowledgeBaseIds, kbPc, launched,
                   results, closed, wg, merged, synthCalls, synthRet, kbRet>>

\* line 207: make(chan kbResult, len(c.knowledgeBaseIds)), the capacity of
\* the results channel
ResultsCapacityUnbuffered(ids) == 0

ResultsCapacity(ids) == Len(ids)

\* line 216: results <- kbResult{...}; blocks while the buffer is full (no
\* receiver runs before line 236), panics on a closed channel;
\* line 214: the deferred wg.Done() runs as the goroutine ends
TaskSend(i) ==
    /\ taskPc[i] = "sending"
    /\ \/ /\ closed
          /\ taskPc' = [taskPc EXCEPT ![i] = "panic"]
          /\ results' = results
       \/ /\ ~closed
          /\ Len(results) < ResultsCapacity(knowledgeBaseIds)
          /\ results' = Append(results, taskResult[i])
          /\ taskPc' = [taskPc EXCEPT ![i] = "done"]
    /\ wg' = wg - 1
    /\ UNCHANGED <<retryVars, classifyVars, docVars, handlerVars, knowledgeBaseIds, kbPc, launched,
                   taskResult, closed, merged, synthCalls, queryCalls,
                   synthRet, kbRet>>

\* lines 226-227: wg.Wait() returns; close(results)
WaitReturns ==
    /\ kbPc = "wait"
    /\ WaitReady(wg)
    /\ closed' = TRUE
    /\ kbPc' = "collect"
    /\ UNCHANGED <<retryVars, classifyVars, docVars, handlerVars, knowledgeBaseIds, launched, taskPc,
                   taskResult, results, wg, merged, synthCalls, queryCalls,
                   synthRet, kbRet>>

\* lines 229-280: the collection loop drains the channel, then the call
\* returns the error, returns the sentinel, or calls synthesizeAnswers
Collect ==
    /\ kbPc = "collect"
    /\ LET st == CollectLoop(CollectInit, results)
       IN  /\ merged' = st
           /\ results' = <<>>
           /\ IF AllFailed(st)
              THEN /\ kbPc' = "returned"
                   /\ synthCalls' = synthCalls
                   /\ kbRet' = [answer |-> "", documents |-> <<>>,
                                err |-> IF st.lastError # NilErr
                                        THEN st.lastError
                                        ELSE PlainErr("all knowledge base queries failed")]
              ELSE IF st.combinedAnswer = ""
              THEN /\ kbPc' = "returned"
                   /\ synthCalls' = synthCalls
                   /\ kbRet' = [answer |-> NotFoundAnswer,
                                documents |-> st.allDocuments, err |-> NilErr]
              ELSE /\ kbPc' = "synth"
                   /\ synthCalls' = synthCalls + 1
                   /\ kbRet' = kbRet
    /\ UNCHANGED <<retryVars, classifyVars, docVars, handlerVars, knowledgeBaseIds, launched, taskPc,
                   taskResult, closed, wg, queryCalls, synthRet>>

\* lines 281-288: what the call returns once synthesizeAnswers returned sr
AfterSynthesisPropagatesError(sr, st) ==
    IF sr.err # NilErr
    THEN [answer |-> "", documents |-> <<>>, err |-> sr.err]
    ELSE [answer |-> sr.text, documents |-> st.allDocuments, err |-> NilErr]

AfterSynthesis(sr, st) ==
    IF sr.err # NilErr
    THEN [answer |-> st.combinedAnswer, documents |-> st.allDocuments,
          err |-> NilErr]
    ELSE [answer |-> sr.text, documents |-> st.allDocuments, err |-> NilErr]

\* lines 280-288: Converse returns out inside synthesizeAnswers, which returns
SynthesizeReturns(out) ==
    /\ kbPc = "synth"
    /\ kbPc' = "returned"
    /\ LET sr == synthesizeAnswers(out)
       IN  /\ synthRet' = [output |-> out, text |-> sr.text, err |-> sr.err]
           /\ kbRet' = AfterSynthesis(sr, merged)
    /\ UNCHANGED <<retryVars, classifyVars, docVars, handlerVars, knowledgeBaseIds, launched, taskPc,
                   taskResult, results, closed, wg, merged, synthCalls,
                   queryCalls>>

NextKB ==
    \/ ReturnNoSources
    \/ LaunchTask
    \/ \E i \in 1..N : \E r \in QueryResults : TaskQueryReturns(i, r)
    \/ \E i \in 1..N : TaskSend(i)
    \/ WaitReturns
    \/ Collect
    \/ \E out \in ConverseOutputs : SynthesizeReturns(out)

InitKB == KBInit /\ RetryIdle /\ ClassifyIdle /\ DocsIdle /\ HandlerIdle
SpecKB == InitKB /\ [][NextKB]_vars

\* the Go scheduler runs every goroutine that can take a step, and every
\* call to a source or to the model returns
SpecKBFair == SpecKB /\ WF_vars(NextKB)

(***************************************************************************)
(* One call of utils.isRetryable (src/utils/retry.go lines 69-112) on an   *)
(* error drawn from ClassifyInputs.                                        *)
(***************************************************************************)
\* messages of errors: the texts of TestIsRetryable, the patterns at the
\* start, in the middle and at the end of a text, in another case, absent
ClassifyMessages ==
    { "request timeout", "ServiceUnavailable", "timeout",
      "connection Timeout occurred", "InternalServerError: retry later",
      "HTTP 429 TooManyRequests", "ThrottlingException", "dial tcp: timeouts",
      "TIMEOUT", "throttling", "time out", "invalid input", "" }

ClassifyCodes ==
    { ErrCodeValidation, ErrCodeEmbedding, ErrCodeKnowledgeBase,
      ErrCodeThrottling, ErrCodeAWSService }

\* the errors whose chain of causes holds at most d BedrockError values
RECURSIVE ErrorsOfDepth(_)
ErrorsOfDepth(d) ==
    IF d = 0 THEN {NilErr} \cup { PlainErr(m) : m \in ClassifyMessages }
    ELSE LET inner == ErrorsOfDepth(d - 1)
         IN  inner \cup
             { BedrockError(c, m, cause) :
                 c \in ClassifyCodes, m \in {"timeout", "failed"},
                 cause \in inner }

ClassifyInputs == ErrorsOfDepth(MaxWrapDepth)

InitClassify ==
    /\ classifyErr \in ClassifyInputs
    /\ classifyPc = "called"
    /\ classifyRet = FALSE
    /\ RetryIdle
    /\ KBIdle
    /\ DocsIdle
    /\ HandlerIdle

\* lines 69-112: the call returns
ClassifyReturns ==
    /\ classifyPc = "called"
    /\ classifyRet' = isRetryable(classifyErr)
    /\ classifyPc' = "returned"
    /\ UNCHANGED <<retryVars, kbVars, docVars, handlerVars, classifyErr>>

NextClassify == ClassifyReturns

SpecClassify == InitClassify /\ [][NextClassify]_vars

(***************************************************************************)
(* Document metadata: extractVersionNumber, extractTopicFromUrl,           *)
(* extractYearMonthFromUrl, createSortKey (src/unnamed/part_010 lines      *)
(* 685-765, src/unnamed/part_013 lines 224-290), on strings of characters. *)
(***************************************************************************)
Digits == "0123456789"

IsDigit(c) == \E k \in 1..Len(Digits) : At(Digits, k) = c

\* the value of the digit c
DigitValue(c) == (CHOOSE k \in 1..Len(Digits) : At(Digits, k) = c) - 1

\* strconv.Atoi / Sscanf("%d") of a string of digits
RECURSIVE Atoi(_)
Atoi(s) ==
    IF s = "" THEN 0
    ELSE 10 * Atoi(SubSeq(s, 1, Len(s) - 1)) + DigitValue(At(s, Len(s)))

\* parts[len(parts)-1] of strings.Split(url, "/")
RECURSIVE LastSegment(_)
LastSegment(url) ==
    IF url = "" \/ At(url, Len(url)) = "/" THEN ""
    ELSE LastSegment(SubSeq(url, 1, Len(url) - 1)) \o At(url, Len(url))

\* strings.TrimSuffix
TrimSuffix(s, suffix) ==
    IF /\ Len(s) >= Len(suffix)
       /\ SubSeq(s, Len(s) - Len(suffix) + 1, Len(s)) = suffix
    THEN SubSeq(s, 1, Len(s) - Len(suffix))
    ELSE s

\* the five TrimSuffix calls, in the order of the code
RemoveExtension(filename) ==
    TrimSuffix(TrimSuffix(TrimSuffix(TrimSuffix(TrimSuffix(filename,
        ".pdf"), ".PDF"), ".doc"), ".docx"), ".txt")

\* the number of digits at the end of s
RECURSIVE TrailingDigits(_)
TrailingDigits(s) ==
    IF s # "" /\ IsDigit(At(s, Len(s)))
    THEN 1 + TrailingDigits(SubSeq(s, 1, Len(s) - 1))
    ELSE 0

\* the pattern -(\d+)$ matches s: the position of its "-", else 0
VersionMatch(s) ==
    LET k == TrailingDigits(s)
    IN  IF k >= 1 /\ Len(s) > k /\ At(s, Len(s) - k) = "-"
        THEN Len(s) - k ELSE 0

\* lines 706-738 of part_010, 242-268 of part_013
extractVersionNumber(url) ==
    LET filename == RemoveExtension(LastSegment(url))
        m == VersionMatch(filename)
    IN  IF m > 0 THEN Atoi(SubSeq(filename, m + 1, Len(filename))) ELSE 0

extractTopicFromUrl(url) ==
    LET filename == RemoveExtension(LastSegment(url))
        m == VersionMatch(filename)
    IN  IF m > 0 THEN SubSeq(filename, 1, m - 1) ELSE filename

\* the pattern /(\d{4})/(\d{2})/ matches url at position i
YearMonthAt(url, i) ==
    /\ i + 8 <= Len(url)
    /\ At(url, i) = "/" /\ At(url, i + 5) = "/" /\ At(url, i + 8) = "/"
    /\ \A k \in {1, 2, 3, 4, 6, 7} : IsDigit(At(url, i + k))

extractYearMonthFromUrl(url) ==
    IF \E i \in 1..Len(url) : YearMonthAt(url, i)
    THEN LET i == CHOOSE i \in 1..Len(url) :
                     /\ YearMonthAt(url, i)
                     /\ \A j \in 1..(i - 1) : ~YearMonthAt(url, j)
         IN  SubSeq(url, i + 1, i + 4) \o "/" \o SubSeq(url, i + 6, i + 7)
    ELSE "0000/00"

\* BedrockOpenSearchClient.createSortKey: "2025/05" becomes "202505"
createSortKey(yearMonth) == ReplaceAll(yearMonth, 1, "/", "")

\* the order of the bytes that occur in yearMonth and sortKey
ByteOrder == "/0123456789"

Ord(c) == CHOOSE k \in 1..Len(ByteOrder) : At(ByteOrder, k) = c

\* a > b for strings (comparison byte by byte)
RECURSIVE StringGreater(_, _)
StringGreater(a, b) ==
    IF a = "" THEN FALSE
    ELSE IF b = "" THEN TRUE
    ELSE IF At(a, 1) # At(b, 1) THEN Ord(At(a, 1)) > Ord(At(b, 1))
    ELSE StringGreater(SubSeq(a, 2, Len(a)), SubSeq(b, 2, Len(b)))

(***************************************************************************)
(* One call of BedrockDocumentSummaryService.AnalyzeDocuments              *)
(* (src/unnamed/part_013 lines 58-130) or of                               *)
(* OpenSearchDocumentService.GetLastUpdateDocuments                        *)
(* (src/services/document_details_service.go lines 31-108, over            *)
(* BedrockOpenSearchClient.GetLastUpdateDocuments, src/unnamed/part_010).  *)
(* Slice indices count from 1 here, from 0 in the program.                 *)
(***************************************************************************)
\* the identifiers: one topic in two periods and several versions, and the
\* examples of the doc comment of extractVersionNumber
DocUrls ==
    { "c/2025/05/fee-1.pdf", "c/2025/05/fee-2.pdf", "c/2025/11/fee-1.pdf",
      "c/2025/11/fee.pdf", "file-1-2.pdf", "file-1-1.pdf", "file-1.pdf",
      "Horaland1-2.pdf" }

\* lastModified.Unix() of a document: 0 stands for a document without a
\* modification date in its metadata, 1 for one with a date
LastModifiedValues == {0, 1}

\* the lists of n different identifiers
DocLists(n) ==
    { l \in [1..n -> DocUrls] : \A i, j \in 1..n : l[i] = l[j] => i = j }

Rankings == {"AnalyzeDocuments", "GetLastUpdateDocuments"}

DocsInit ==
    /\ ranking \in Rankings
    /\ \E n \in 0..MaxDocs :
          /\ documentUrls \in DocLists(n)
          /\ lastModified \in
                IF ranking = "GetLastUpdateDocuments"
                THEN [1..n -> LastModifiedValues]
                ELSE {[i \in 1..n |-> 0]}
    /\ documents = <<>>
    /\ docPc = "extract"
    /\ docIndex = 0
    /\ olderIndex = <<>>

\* part_013 lines 66-76 (part_010 lines 540-593): the metadata of one
\* identifier
DocumentInfo(url, lastMod) ==
    [url |-> url,
     topic |-> extractTopicFromUrl(url),
     version |-> extractVersionNumber(url),
     yearMonth |-> extractYearMonthFromUrl(url),
     sortKey |-> createSortKey(extractYearMonthFromUrl(url)),
     lastModifiedUnix |-> lastMod]

\* part_013 lines 83-89: the less function of AnalyzeDocuments
lessAnalyzeVersionFirst(a, b) ==
    IF a.version # b.version THEN a.version > b.version
    ELSE StringGreater(a.yearMonth, b.yearMonth)

lessAnalyze(a, b) ==
    IF a.yearMonth # b.yearMonth
    THEN StringGreater(a.yearMonth, b.yearMonth)
    ELSE a.version > b.version

\* part_010 lines 600-621: the less function of GetLastUpdateDocuments
lessLastUpdate(a, b) ==
    IF a.sortKey # b.sortKey THEN StringGreater(a.sortKey, b.sortKey)
    ELSE IF a.lastModifiedUnix # b.lastModifiedUnix
    THEN a.lastModifiedUnix > b.lastModifiedUnix
    ELSE a.version > b.version

Less(r, a, b) ==
    IF r = "AnalyzeDocuments" THEN lessAnalyze(a, b) ELSE lessLastUpdate(a, b)

\* sort.Slice(docs, less): the orders it can leave docs in (it is not
\* stable: elements that compare equal can end in any order)
SortSlice(docs, r) ==
    LET n == Len(docs)
        perms == { q \in [1..n -> 1..n] :
                     \A i, j \in 1..n : q[i] = q[j] => i = j }
        sorted == { [i \in 1..n |-> docs[q[i]]] : q \in perms }
    IN  { d \in sorted :
            \A i, j \in 1..n : i < j => ~Less(r, d[j], d[i]) }

\* part_010 lines 624-626: only the first 10 documents are kept
KeptDocuments == 10

Truncate(docs, r) ==
    IF r = "GetLastUpdateDocuments" /\ Len(docs) > KeptDocuments
    THEN SubSeq(docs, 1, KeptDocuments)
    ELSE docs

\* findOlderVersion: the loop from index i on; 0 stands for nil
RECURSIVE findOlderFrom(_, _, _, _, _)
findOlderFrom(docs, topic, currentVersion, currentIndex, i) ==
    IF i > Len(docs) THEN 0
    ELSE IF i = currentIndex
    THEN findOlderFrom(docs, topic, currentVersion, currentIndex, i + 1)
    ELSE IF docs[i].topic = topic /\ docs[i].version < currentVersion
    THEN i
    ELSE findOlderFrom(docs, topic, currentVersion, currentIndex, i + 1)

\* another document of the topic with the same version is taken too
findOlderVersionNotStrict(docs, topic, currentVersion, currentIndex) ==
    IF \E i \in 1..Len(docs) :
          i # currentIndex /\ docs[i].topic = topic
          /\ docs[i].version <= currentVersion
    THEN CHOOSE i \in 1..Len(docs) :
          /\ i # currentIndex /\ docs[i].topic = topic
          /\ docs[i].version <= currentVersion
          /\ \A j \in 1..(i - 1) :
                ~(j # currentIndex /\ docs[j].topic = topic
                  /\ docs[j].version <= currentVersion)
    ELSE 0

\* part_013 lines 209-222, document_details_service.go lines 110-126
findOlderVersion(docs, topic, currentVersion, currentIndex) ==
    findOlderFrom(docs, topic, currentVersion, currentIndex, 1)

\* part_013 lines 66-76: the metadata of every identifier is extracted
ExtractMetadata ==
    /\ docPc = "extract"
    /\ documents' = [i \in 1..Len(documentUrls) |->
                        DocumentInfo(documentUrls[i], lastModified[i])]
    /\ docPc' = "sort"
    /\ UNCHANGED <<retryVars, kbVars, classifyVars, handlerVars, ranking,
                   documentUrls, lastModified, docIndex, olderIndex>>

\* part_013 lines 82-90, part_010 lines 600-626: sort.Slice, truncation
SortDocuments ==
    /\ docPc = "sort"
    /\ \E d \in SortSlice(documents, ranking) :
          documents' = Truncate(d, ranking)
    /\ docIndex' = 1
    /\ docPc' = "compare"
    /\ UNCHANGED <<retryVars, kbVars, classifyVars, handlerVars, ranking,
                   documentUrls, lastModified, olderIndex>>

\* part_013 lines 104-119, document_details_service.go lines 48-53: one
\* iteration of the loop that looks for an older version of documents[i]
FindOlder ==
    /\ docPc = "compare"
    /\ docIndex <= Len(documents)
    /\ olderIndex' = Append(olderIndex,
                         findOlderVersion(documents, documents[docIndex].topic,
                                          documents[docIndex].version, docIndex))
    /\ docIndex' = docIndex + 1
    /\ UNCHANGED <<retryVars, kbVars, classifyVars, handlerVars, ranking,
                   documentUrls, lastModified, documents, docPc>>

\* the loop is over, the call returns
DocsReturn ==
    /\ docPc = "compare"
    /\ docIndex > Len(documents)
    /\ docPc' = "returned"
    /\ UNCHANGED <<retryVars, kbVars, classifyVars, handlerVars, ranking,
                   documentUrls, lastModified, documents, docIndex, olderIndex>>

NextDocs ==
    \/ ExtractMetadata
    \/ SortDocuments
    \/ FindOlder
    \/ DocsReturn

InitDocs == DocsInit /\ RetryIdle /\ KBIdle /\ ClassifyIdle /\ HandlerIdle
SpecDocs == InitDocs /\ [][NextDocs]_vars

(***************************************************************************)
(* QuestionSearchHandler.Handle (src/routing/question_search_handler.go    *)
(* lines 34-119) and handleError (lines 121-167).                          *)
(***************************************************************************)
StatusOK == 200
StatusBadRequest == 400
StatusTooManyRequests == 429
StatusInternalServerError == 500
StatusServiceUnavailable == 503

\* the values of the Content-Type header; "" is the absent header
ContentTypes == {"application/json", "", "text/plain"}

\* the characters questions are made of
QuestionChars == {" ", "\t", "a"}

\* the strings over QuestionChars of length n
RECURSIVE StringsOfLen(_)
StringsOfLen(n) ==
    IF n = 0 THEN {""}
    ELSE { s \o c : s \in StringsOfLen(n - 1), c \in QuestionChars }

\* the questions clients send: up to one character more than the largest
\* maxQuestionLength
Questions == UNION { StringsOfLen(n) : n \in 0..(MaxQuestion + 1) }

\* the escape sequences of a JSON string, by the character after the
\* backslash
EscapeChars == {"t", "n", "r", "f", "\"", "\\", "/"}
Unescape(c) ==
    CASE c = "t" -> "\t"
      [] c = "n" -> "\n"
      [] c = "r" -> "\r"
      [] c = "f" -> "\f"
      [] OTHER -> c

\* json.Marshal of a string value, without the quotes, from position i on
RECURSIVE EncodeString(_, _)
EncodeString(s, i) ==
    IF i > Len(s) THEN ""
    ELSE (CASE At(s, i) = "\t" -> "\\t"
            [] At(s, i) = "\n" -> "\\n"
            [] At(s, i) = "\r" -> "\\r"
            [] At(s, i) = "\f" -> "\\f"
            [] At(s, i) = "\"" -> "\\\""
            [] At(s, i) = "\\" -> "\\\\"
            [] OTHER -> At(s, i)) \o EncodeString(s, i + 1)

\* json.Marshal(map[string]interface{}{"question": q})
QuestionPrefix == "{\"question\":\""
QuestionSuffix == "\"}"
MarshalQuestion(q) == QuestionPrefix \o EncodeString(q, 1) \o QuestionSuffix

\* bodies that carry no question string: not JSON, JSON of another shape, a
\* raw control character inside the string, and objects without the field
MalformedBodies ==
    { "{invalid", "not json", "{\"key\": }", "[1,2,3", "",
      "{\"question\":5}", "{\"question\":\"a\n\"}", "{\"question\":\"a\\q\"}" }
NoQuestionBodies == { "{}", "null", "{\"question\":null}" }

\* the requests: header, whether reading the body fails, the body, and what
\* the client encoded in it
Requests ==
    { [contentType |-> ct, readErr |-> re, body |-> MarshalQuestion(q),
       sent |-> [kind |-> "question", question |-> q]] :
        ct \in ContentTypes, re \in BOOLEAN, q \in Questions }
    \cup
    { [contentType |-> ct, readErr |-> FALSE, body |-> b,
       sent |-> [kind |-> "malformed", question |-> ""]] :
        ct \in ContentTypes, b \in MalformedBodies }
    \cup
    { [contentType |-> ct, readErr |-> FALSE, body |-> b,
       sent |-> [kind |-> "missing", question |-> ""]] :
        ct \in ContentTypes, b \in NoQuestionBodies }

\* the decoding of the inside of a JSON string from position i on: a quote or
\* a control character that is not escaped, or an unknown escape, is an error
RECURSIVE DecodeString(_, _)
DecodeString(s, i) ==
    IF i > Len(s) THEN [err |-> FALSE, val |-> ""]
    ELSE IF At(s, i) = "\\"
    THEN IF i < Len(s) /\ At(s, i + 1) \in EscapeChars
         THEN LET rest == DecodeString(s, i + 2)
              IN  [err |-> rest.err,
                   val |-> Unescape(At(s, i + 1)) \o rest.val]
         ELSE [err |-> TRUE, val |-> ""]
    ELSE IF At(s, i) \in {"\"", "\t", "\n", "\r", "\f"}
    THEN [err |-> TRUE, val |-> ""]
    ELSE LET rest == DecodeString(s, i + 1)
         IN  [err |-> rest.err, val |-> At(s, i) \o rest.val]

HasPrefix(s, p) == Len(s) >= Len(p) /\ SubSeq(s, 1, Len(p)) = p
HasSuffix(s, p) ==
    Len(s) >= Len(p) /\ SubSeq(s, Len(s) - Len(p) + 1, Len(s)) = p

\* json.Unmarshal(body, &request) on the bodies of Requests: the error and
\* request.Question, which keeps its zero value when the field is absent or
\* null
Unmarshal(body) ==
    IF body \in NoQuestionBodies THEN [err |-> FALSE, Question |-> ""]
    ELSE IF /\ Len(body) >= Len(QuestionPrefix) + Len(QuestionSuffix)
            /\ HasPrefix(body, QuestionPrefix)
            /\ HasSuffix(body, QuestionSuffix)
    THEN LET d == DecodeString(SubSeq(body, Len(QuestionPrefix) + 1,
                                      Len(body) - Len(QuestionSuffix)), 1)
         IN  [err |-> d.err, Question |-> IF d.err THEN "" ELSE d.val]
    ELSE [err |-> TRUE, Question |-> ""]

\* line 46: the content type is rejected
ContentTypeRejected(contentType) ==
    contentType # "application/json" /\ contentType # ""

\* line 82: the question is whitespace-only
WhitespaceOnlyNever(q) == FALSE

WhitespaceOnly(q) == TrimSpace(q) = ""

\* line 89: the question is too long
TooLongOffByOne(q, max) == Len(q) > max + 1

TooLong(q, max) == Len(q) > max

\* what h.service.SearchAnswer returns
ServiceResults ==
    { [answer |-> a, err |-> NilErr] : a \in KBAnswers }
    \cup
    { [answer |-> "", err |-> e] :
        e \in { NewValidationError("invalid input"),
                NewThrottlingError("throttled", NilErr),
                NewKnowledgeBaseError("quota exceeded", NilErr),
                NewKnowledgeBaseError("knowledge base query failed", NilErr),
                NewEmbeddingError("embedding failed", NilErr),
                NewAWSServiceError("Quota exceeded", NilErr),
                NewAWSServiceError("service error", NilErr),
                PlainErr("boom") } }

\* handleError: the status written for an error of the service
handleError(err) ==
    IF err.kind = "bedrock" /\ err.code = ErrCodeValidation
    THEN StatusBadRequest
    ELSE IF err.kind = "bedrock" /\ err.code = ErrCodeThrottling
    THEN StatusTooManyRequests
    ELSE IF /\ err.kind = "bedrock"
            /\ err.code \in {ErrCodeEmbedding, ErrCodeKnowledgeBase,
                             ErrCodeAWSService}
    THEN IF contains(err.msg, "quota") \/ contains(err.msg, "Quota")
         THEN StatusServiceUnavailable
         ELSE StatusInternalServerError
    ELSE StatusInternalServerError

HandlerInit ==
    /\ request \in Requests
    /\ maxQuestionLength \in 1..MaxQuestion
    /\ handlerPc = "contentType"
    /\ question = ""
    /\ serviceCalls = 0
    /\ serviceRet = <<>>
    /\ status = 0

\* BadRequestHandler(w, ...) followed by return
BadRequest ==
    /\ status' = StatusBadRequest
    /\ handlerPc' = "responded"

\* lines 45-52
CheckContentType ==
    /\ handlerPc = "contentType"
    /\ IF ContentTypeRejected(request.contentType)
       THEN BadRequest
       ELSE handlerPc' = "read" /\ UNCHANGED status
    /\ UNCHANGED <<retryVars, kbVars, classifyVars, docVars, request,
                   maxQuestionLength, question, serviceCalls, serviceRet>>

\* lines 55-63: io.ReadAll(r.Body)
ReadBody ==
    /\ handlerPc = "read"
    /\ IF request.readErr
       THEN BadRequest
       ELSE handlerPc' = "unmarshal" /\ UNCHANGED status
    /\ UNCHANGED <<retryVars, kbVars, classifyVars, docVars, request,
                   maxQuestionLength, question, serviceCalls, serviceRet>>

\* lines 65-72: json.Unmarshal(body, &request)
UnmarshalBody ==
    /\ handlerPc = "unmarshal"
    /\ LET u == Unmarshal(request.body)
       IN  IF u.err
           THEN BadRequest /\ UNCHANGED question
           ELSE /\ question' = u.Question
                /\ handlerPc' = "presence"
                /\ UNCHANGED status
    /\ UNCHANGED <<retryVars, kbVars, classifyVars, docVars, request,
                   maxQuestionLength, serviceCalls, serviceRet>>

\* lines 75-79
CheckPresence ==
    /\ handlerPc = "presence"
    /\ IF question = ""
       THEN BadRequest
       ELSE handlerPc' = "whitespace" /\ UNCHANGED status
    /\ UNCHANGED <<retryVars, kbVars, classifyVars, docVars, request,
                   maxQuestionLength, question, serviceCalls, serviceRet>>

\* lines 82-86
CheckWhitespace ==
    /\ handlerPc = "whitespace"
    /\ IF WhitespaceOnly(question)
       THEN BadRequest
       ELSE handlerPc' = "length" /\ UNCHANGED status
    /\ UNCHANGED <<retryVars, kbVars, classifyVars, docVars, request,
                   maxQuestionLength, question, serviceCalls, serviceRet>>

\* lines 89-96
CheckLength ==
    /\ handlerPc = "length"
    /\ IF TooLong(question, maxQuestionLength)
       THEN BadRequest
       ELSE handlerPc' = "call" /\ UNCHANGED status
    /\ UNCHANGED <<retryVars, kbVars, classifyVars, docVars, request,
                   maxQuestionLength, question, serviceCalls, serviceRet>>

\* lines 99-100: h.service.SearchAnswer(ctx, request.Question) is called
CallService ==
    /\ handlerPc = "call"
    /\ serviceCalls' = serviceCalls + 1
    /\ handlerPc' = "inService"
    /\ UNCHANGED <<retryVars, kbVars, classifyVars, docVars, request,
                   maxQuestionLength, question, serviceRet, status>>

\* lines 100-118: the service returns and the response is written
ServiceReturns ==
    /\ handlerPc = "inService"
    /\ \E r \in ServiceResults :
        /\ serviceRet' = r
        /\ status' = IF r.err # NilErr THEN handleError(r.err) ELSE StatusOK
    /\ handlerPc' = "responded"
    /\ UNCHANGED <<retryVars, kbVars, classifyVars, docVars, request,
                   maxQuestionLength, question, serviceCalls>>

NextHandler ==
    \/ CheckContentType
    \/ ReadBody
    \/ UnmarshalBody
    \/ CheckPresence
    \/ CheckWhitespace
    \/ CheckLength
    \/ CallService
    \/ ServiceReturns

InitHandler == HandlerInit /\ RetryIdle /\ KBIdle /\ ClassifyIdle /\ DocsIdle
SpecHandler == InitHandler /\ [][NextHandler]_vars

(***************************************************************************)
(* Properties of RetryWithBackoff, checked under SpecRetry.                *)
(***************************************************************************)
\* every invocation that has returned so far returned a transient error
AlwaysRetryableFailure == retryableFails = opReturns

\* every sleep so far had a positive duration
PositiveDelays == \A i \in 1..Len(delays) : delays[i] > 0

\* C1: for maxAttempts in 1..10, with the context never cancelled and an
\* operation that fails with a retryable error on every invocation,
\* RetryWithBackoff returns after invoking the operation exactly maxAttempts
\* times.
C1_ExactlyMaxAttempts ==
    ( /\ pc = "returned"
      /\ config.MaxAttempts \in 1..10
      /\ ~ctxDone
      /\ AlwaysRetryableFailure )
    => attemptCount = config.MaxAttempts

C1_Witness ==
    /\ pc = "returned"
    /\ config.MaxAttempts = 10
    /\ ~ctxDone
    /\ AlwaysRetryableFailure
    /\ attemptCount = 10
    /\ lastErr = NewThrottlingError("throttled", NilErr)

\* C2: once the operation has failed with a non-retryable error the call has
\* returned that very error; no invocation and no sleep follows it, so when
\* the first invocation fails that way the operation was invoked exactly
\* once and nothing was slept, whatever maxAttempts is.
C2_PermanentErrorReturnsAtOnce ==
    lastErr \in PermanentOpErrors
    => /\ pc = "returned"
       /\ retErr = lastErr
       /\ attemptCount = retryableFails + 1
       /\ Len(delays) = retryableFails
       /\ (retryableFails = 0 => attemptCount = 1 /\ delays = <<>>)

C2_Witness ==
    /\ pc = "returned"
    /\ config.MaxAttempts = 3
    /\ lastErr = NewValidationError("invalid input")
    /\ retErr = lastErr
    /\ attemptCount = 1
    /\ delays = <<>>

\* C3: when the operation fails with retryable errors on attempts 1..k-1 and
\* returns nil on attempt k, the call has returned nil after exactly k
\* invocations, k <= maxAttempts; no invocation follows the success.
C3_StopsOnSuccess ==
    (opReturns >= 1 /\ lastErr = NilErr)
    => /\ pc = "returned"
       /\ retErr = NilErr
       /\ attemptCount = opReturns
       /\ retryableFails = opReturns - 1
       /\ attemptCount <= config.MaxAttempts

C3_Witness ==
    /\ pc = "returned"
    /\ config.MaxAttempts = 5
    /\ lastErr = NilErr
    /\ retErr = NilErr
    /\ retryableFails = 2
    /\ attemptCount = 3

\* the contract of RetryConfig for the backoff fields
BackoffContract ==
    /\ config.InitialBackoff > 0
    /\ config.MultHalves >= 2
    /\ config.MaxBackoff >= config.InitialBackoff

\* C4: for a config with initialBackoff > 0, backoffMultiplier >= 1 and
\* maxBackoff >= initialBackoff, the delays used by RetryWithBackoff are
\* monotonically non-decreasing and each is at most maxBackoff.
C4_BackoffMonotoneCapped ==
    BackoffContract
    => \A i \in 1..Len(delays) :
          /\ delays[i] <= config.MaxBackoff
          /\ (i > 1 => delays[i] >= delays[i - 1])

C6_NoSleepAfterFinalAttempt ==
    /\ (config.MaxAttempts >= 1 => Len(delays) <= config.MaxAttempts - 1)
    /\ (pc = "select" => attempt < config.MaxAttempts)
    /\ (pc = "returned" /\ config.MaxAttempts = 1
            => attemptCount = 1 /\ delays = <<>>)

C6_Witness ==
    /\ pc = "returned"
    /\ config.MaxAttempts = 1
    /\ lastErr = NewThrottlingError("throttled", NilErr)
    /\ retErr = lastErr
    /\ attemptCount = 1
    /\ delays = <<>>

(***************************************************************************)
(* Properties of QueryMultipleKnowledgeBases, checked under SpecKB.        *)
(***************************************************************************)
\* the merge phase: the collection loop can run, or has run
MergePhase == kbPc \in {"collect", "synth", "returned"} /\ N > 0

\* what the collection loop receives, or has received
Collected == IF kbPc = "collect" THEN results ELSE merged.seen

\* source i completed without error
Succeeded(i) == taskPc[i] = "done" /\ taskResult[i].err = NilErr

\* C7: the merge phase starts only after every launched source task has
\* finished: during it every configured source has run its query and handed
\* off its result (none skipped, cancelled or still running), and the
\* collection loop sees exactly one partial result per configured source,
\* the one that source's task built.
C7_MergeAfterAllTasks ==
    MergePhase
    => /\ launched = N
       /\ \A i \in 1..N : taskPc[i] = "done"
       /\ Len(Collected) = N
       /\ \A i \in 1..N :
             /\ Cardinality({j \in 1..Len(Collected) :
                                Collected[j].kbId = knowledgeBaseIds[i]}) = 1
             /\ \E j \in 1..Len(Collected) : Collected[j] = taskResult[i]

C7_Witness ==
    /\ kbPc = "collect"
    /\ N = 3
    /\ \A i \in 1..N : taskPc[i] = "done"
    /\ taskResult[1].err # NilErr
    /\ taskResult[2].err = NilErr
    /\ results = <<taskResult[3], taskResult[1], taskResult[2]>>

\* C8: with a non-empty source list the call returns a nil error if and only
\* if at least one source completed without error; when one did, no error of
\* another source is returned.
C8_SuccessIffSomeSourceSucceeded ==
    (kbPc = "returned" /\ N > 0)
    => (kbRet.err = NilErr <=> \E i \in 1..N : Succeeded(i))

C8_Witness ==
    /\ kbPc = "returned"
    /\ N = 3
    /\ taskResult[1].err = NilErr /\ taskResult[1].answer = "A"
    /\ taskResult[2].err # NilErr
    /\ taskResult[3].err = NilErr /\ taskResult[3].answer = "B"
    /\ kbRet.err = NilErr
    /\ synthCalls = 1
    /\ \A i, j \in 1..Len(kbRet.documents) :
          kbRet.documents[i] = kbRet.documents[j] => i = j

\* C9: when every source errors the call returns the error of the result
\* collected last (one of the sources' own errors), an empty answer and no
\* documents, and synthesizeAnswers is never called.
C9_AllFailedReturnsLastError ==
    ( /\ kbPc = "returned"
      /\ N > 0
      /\ \A i \in 1..N : taskResult[i].err # NilErr )
    => /\ kbRet.err = merged.seen[N].err
       /\ \E i \in 1..N : kbRet.err = taskResult[i].err
       /\ kbRet.answer = ""
       /\ kbRet.documents = <<>>
       /\ synthCalls = 0

C9_Witness ==
    /\ kbPc = "returned"
    /\ N = 3
    /\ \A i \in 1..N : taskResult[i].err # NilErr
    /\ taskResult[1].err # taskResult[3].err
    /\ merged.seen = <<taskResult[3], taskResult[2], taskResult[1]>>
    /\ kbRet.err = taskResult[1].err
    /\ synthCalls = 0

\* the answers of the successful sources concatenated in configuration order
RECURSIVE ConfigOrderAnswer(_)
ConfigOrderAnswer(n) ==
    IF n = 0 THEN ""
    ELSE LET prev == ConfigOrderAnswer(n - 1)
             r == taskResult[n]
         IN  IF r.err = NilErr /\ r.answer # "" /\ r.answer # NotFoundAnswer
             THEN (IF Len(prev) > 0 THEN prev \o "\n\n" ELSE prev) \o r.answer
             ELSE prev

\* C10: in the merged answer the contributions of the sources appear in the
\* configuration order of the sources, whatever the order in which the tasks
\* completed.
C10_MergedAnswerInConfigOrder ==
    (kbPc \in {"synth", "returned"} /\ N > 0)
    => merged.combinedAnswer = ConfigOrderAnswer(N)

\* the documents of the successful results rs, in the order received
RECURSIVE DocumentStream(_)
DocumentStream(rs) ==
    IF rs = <<>> THEN <<>>
    ELSE (IF Head(rs).err = NilErr THEN Head(rs).documents ELSE <<>>)
         \o DocumentStream(Tail(rs))

\* the position of the first occurrence of x in seq
FirstIndex(x, seq) ==
    CHOOSE i \in 1..Len(seq) : seq[i] = x /\ \A j \in 1..(i - 1) : seq[j] # x

\* C11: the merged document list is the duplicate-free union of the documents
\* of the successful sources: no identifier appears twice, every identifier
\* a successful source returned appears and nothing else does, the entries
\* are in the order of their first occurrence in the results as collected,
\* identifiers are compared as whole strings (two versions of one topic are
\* both kept), and the list is what a successful call returns.
C11_MergedDocumentsUnion ==
    (kbPc \in {"synth", "returned"} /\ N > 0)
    => LET all == merged.allDocuments
           stream == DocumentStream(merged.seen)
       IN  /\ \A i, j \in 1..Len(all) : all[i] = all[j] => i = j
           /\ { all[i] : i \in 1..Len(all) }
                 = UNION { { taskResult[k].documents[d] :
                               d \in 1..Len(taskResult[k].documents) } :
                           k \in { k \in 1..N : Succeeded(k) } }
           /\ \A i, j \in 1..Len(all) :
                 i < j => FirstIndex(all[i], stream) < FirstIndex(all[j], stream)
           /\ (kbPc = "returned" /\ kbRet.err = NilErr)
                 => kbRet.documents = all

C11_Witness ==
    /\ kbPc = "returned"
    /\ N = 3
    /\ taskResult[1].documents = <<"2025/05/fee-2.pdf", "2025/05/fee-1.pdf">>
    /\ taskResult[2].documents = <<"2025/05/fee-1.pdf">>
    /\ taskResult[3].documents = <<"2025/11/loan-1.pdf">>
    /\ merged.seen = <<taskResult[2], taskResult[3], taskResult[1]>>
    /\ kbRet.documents = <<"2025/05/fee-1.pdf", "2025/11/loan-1.pdf",
                           "2025/05/fee-2.pdf">>

\* the result r is a success whose answer has content
HasContent(r) == r.err = NilErr /\ r.answer # "" /\ r.answer # NotFoundAnswer

\* the number of results of rs with content, and the total length of their
\* answers
RECURSIVE ContentCount(_)
ContentCount(rs) ==
    IF rs = <<>> THEN 0
    ELSE (IF HasContent(Head(rs)) THEN 1 ELSE 0) + ContentCount(Tail(rs))

RECURSIVE ContentLength(_)
ContentLength(rs) ==
    IF rs = <<>> THEN 0
    ELSE (IF HasContent(Head(rs)) THEN Len(Head(rs).answer) ELSE 0)
         + ContentLength(Tail(rs))

\* C12: a successful source whose answer is empty or the "not found" sentinel
\* adds no text to the concatenated answer (whose length is that of the
\* answers with content plus the separators between them, and which never
\* contains the sentinel) and is counted as a success; when some source
\* succeeded and every successful source answered the sentinel or nothing,
\* the call returns the sentinel answer with the collected documents and a nil
\* error, and synthesizeAnswers is not called.
C12_SentinelContributesNothing ==
    (kbPc \in {"synth", "returned"} /\ N > 0)
    => LET k == ContentCount(merged.seen)
       IN  /\ merged.successCount
                 = Cardinality({ j \in 1..Len(merged.seen) :
                                   merged.seen[j].err = NilErr })
           /\ Len(merged.combinedAnswer)
                 = ContentLength(merged.seen) + (IF k > 1 THEN 2 * (k - 1) ELSE 0)
           /\ ~contains(merged.combinedAnswer, NotFoundAnswer)
           /\ (kbPc = "returned" /\ merged.successCount > 0 /\ k = 0)
                 => /\ kbRet = [answer |-> NotFoundAnswer,
                                documents |-> merged.allDocuments,
                                err |-> NilErr]
                    /\ synthCalls = 0
                    /\ synthRet = <<>>

C12_Witness ==
    /\ kbPc = "returned"
    /\ N = 3
    /\ taskResult[1].err = NilErr /\ taskResult[1].answer = NotFoundAnswer
    /\ taskResult[2].err # NilErr
    /\ taskResult[3].err = NilErr /\ taskResult[3].answer = ""
    /\ kbRet = [answer |-> NotFoundAnswer,
                documents |-> <<"2025/11/loan-1.pdf">>, err |-> NilErr]
    /\ synthCalls = 0

\* C13: when synthesizeAnswers fails, the call returns the raw concatenated
\* answer with the collected documents and a nil error; whatever
\* synthesizeAnswers returns, the error returned after it is nil.
C13_SynthesisFailureFallsBack ==
    (kbPc = "returned" /\ synthCalls > 0)
    => /\ kbRet.err = NilErr
       /\ synthRet.err # NilErr
             => kbRet = [answer |-> merged.combinedAnswer,
                         documents |-> merged.allDocuments, err |-> NilErr]

C13_Witness ==
    /\ kbPc = "returned"
    /\ synthCalls = 1
    /\ synthRet.err = PlainErr("no synthesis output received")
    /\ merged.combinedAnswer = "A\n\nB"
    /\ kbRet = [answer |-> "A\n\nB",
                documents |-> <<"2025/05/fee-1.pdf", "2025/05/fee-2.pdf">>,
                err |-> NilErr]

\* C14: each source task runs its query inside the retry executor: a source
\* whose partial result carries a retryable error was queried again before
\* that result was produced (more than one call of its query was made).
C14_SourceQueryRetried ==
    \A i \in 1..N :
        (taskPc[i] \in {"sending", "done"} /\ isRetryable(taskResult[i].err))
        => queryCalls[i] > 1

\* C15: synthesizeAnswers is called only when at least two sources produced
\* an answer with content (non-empty, not the sentinel).
C15_SynthesisNeedsTwoAnswers ==
    (kbPc \in {"synth", "returned"} /\ synthCalls > 0)
    => ContentCount(merged.seen) >= 2

\* C16: SearchAnswer queries the single source through QueryKnowledgeBase,
\* inside RetryWithBackoff: when the first call of the source query succeeds,
\* the call has returned after exactly that one source call, no goroutine was
\* launched, and SearchAnswer returns the answer of the source, unchanged,
\* with a nil error.
C16_FirstCallSucceedsOneCall ==
    (opReturns = 1 /\ lastErr = NilErr)
    => /\ pc = "returned"
       /\ attemptCount = 1
       /\ launched = 0
       /\ kbAnswer \in KBAnswers
       /\ SearchAnswerReturn(retErr, answer)
             = [answer |-> kbAnswer, err |-> NilErr]

C16_Witness ==
    /\ pc = "returned"
    /\ config.MaxAttempts = 3
    /\ opReturns = 1
    /\ attemptCount = 1
    /\ kbAnswer = "answer for q"
    /\ SearchAnswerReturn(retErr, answer)
          = [answer |-> "answer for q", err |-> NilErr]

\* C17: with an empty source list the first step of the call is its return,
\* with an error and an empty answer; no goroutine is launched, nothing is
\* added to the wait group, no source query and no synthesis call is made.
C17_EmptySourceListFailsAtOnce ==
    [][ N = 0
        => /\ kbPc' = "returned"
           /\ kbRet'.err # NilErr
           /\ kbRet'.answer = ""
           /\ kbRet'.documents = <<>>
           /\ launched' = 0
           /\ wg' = 0
           /\ taskPc' = <<>>
           /\ queryCalls' = <<>>
           /\ synthCalls' = 0 ]_vars

C17_Witness ==
    /\ kbPc = "returned"
    /\ N = 0
    /\ kbRet.err = PlainErr("no knowledge base IDs configured")
    /\ launched = 0
    /\ synthCalls = 0

\* C20: synthesizeAnswers returns an error whenever Converse errors or the
\* output of the model is empty or absent, and never returns success with an
\* empty text, so that in all these cases the call returns the concatenated
\* answer.
C20_SynthesisNeverEmptySuccess ==
    (kbPc = "returned" /\ synthCalls > 0)
    => /\ synthRet.err = NilErr => synthRet.text # ""
       /\ synthRet.text = ""
             => (synthRet.err # NilErr /\ kbRet.answer = merged.combinedAnswer)

(***************************************************************************)
(* Properties of isRetryable, checked under SpecClassify.                  *)
(***************************************************************************)
\* the transient markers
Markers ==
    { "timeout", "Timeout", "ServiceUnavailable", "InternalServer",
      "TooManyRequests", "Throttling" }

\* the text msg has one of the markers as a substring, letter for letter
HasMarker(msg) ==
    \E m \in Markers : \E i \in 1..Len(msg) :
        /\ i + Len(m) - 1 <= Len(msg)
        /\ SubSeq(msg, i, i + Len(m) - 1) = m

\* the classification of an error by its structured code
RECURSIVE ClassifiedRetryable(_)
ClassifiedRetryable(e) ==
    CASE e = NilErr -> FALSE
      [] e.kind = "plain" -> HasMarker(e.msg)
      [] e.kind = "bedrock" /\ e.code \in {ErrCodeThrottling, ErrCodeAWSService}
            -> TRUE
      [] e.kind = "bedrock" /\ e.code = ErrCodeValidation -> FALSE
      [] e.kind = "bedrock" /\ e.code \in {ErrCodeEmbedding, ErrCodeKnowledgeBase}
            -> e.cause # NilErr /\ ClassifiedRetryable(e.cause)

\* C18: isRetryable on nil and on structured errors: nil is not retryable,
\* THROTTLING_ERROR and AWS_SERVICE_ERROR are retryable, VALIDATION_ERROR is
\* not retryable whatever its message and cause, EMBEDDING_ERROR and KB_ERROR
\* are classified as their cause is (recursively), and are not retryable
\* without a cause.
C18_StructuredClassification ==
    (classifyPc = "returned" /\ classifyErr.kind \in {"nil", "bedrock"})
    => classifyRet = ClassifiedRetryable(classifyErr)

C18_Witness ==
    /\ classifyPc = "returned"
    /\ classifyErr = NewKnowledgeBaseError("failed",
                        NewEmbeddingError("timeout",
                                          PlainErr("request timeout")))
    /\ classifyRet = TRUE

\* C19: for an error without structured code isRetryable returns true exactly
\* when the message of the error contains, letter for letter, one of the
\* markers timeout, Timeout, ServiceUnavailable, InternalServer,
\* TooManyRequests, Throttling.
C19_MessageMarkers ==
    (classifyPc = "returned" /\ classifyErr.kind = "plain")
    => classifyRet = HasMarker(classifyErr.msg)

C19_Witness ==
    /\ classifyPc = "returned"
    /\ classifyErr = PlainErr("connection Timeout occurred")
    /\ classifyRet = TRUE

(***************************************************************************)
(* Properties of the document ranking, checked under SpecDocs.             *)
(***************************************************************************)
\* the documents slice has been sorted
Ranked == docPc \in {"compare", "returned"}

\* the period "YYYY/MM" as a number of months
PeriodNumber(yearMonth) ==
    12 * Atoi(SubSeq(yearMonth, 1, 4)) + Atoi(SubSeq(yearMonth, 6, 7))

\* the file name of url without its extension ends with suffix
NameEndsWith(url, suffix) ==
    LET name == RemoveExtension(LastSegment(url))
    IN  Len(name) >= Len(suffix)
        /\ SubSeq(name, Len(name) - Len(suffix) + 1, Len(name)) = suffix

\* C21: of two ranked documents of one topic family with different periods,
\* the one with the later period comes first, whatever their versions are.
C21_LaterPeriodFirst ==
    Ranked
    => \A i, j \in 1..Len(documents) :
          ( /\ documents[i].topic = documents[j].topic
            /\ PeriodNumber(documents[i].yearMonth)
                  > PeriodNumber(documents[j].yearMonth) )
          => i < j

C21_Witness ==
    /\ docPc = "returned"
    /\ documentUrls = <<"c/2025/05/fee-2.pdf", "c/2025/11/fee-1.pdf">>
    /\ documents[1].url = "c/2025/11/fee-1.pdf"
    /\ documents[1].yearMonth = "2025/11"
    /\ documents[2].yearMonth = "2025/05"
    /\ documents[2].version = 2

\* C22: of two ranked documents with the same period whose file names end in
\* -1 and -2, the -2 document comes first.
C22_HigherVersionFirst ==
    Ranked
    => \A i, j \in 1..Len(documents) :
          ( /\ documents[i].yearMonth = documents[j].yearMonth
            /\ NameEndsWith(documents[i].url, "-2")
            /\ NameEndsWith(documents[j].url, "-1") )
          => i < j

\* C23: findOlderVersion(documents, topic, version, i), called for document i
\* with its own topic and version, returns the first document in slice order
\* other than i with that topic and a strictly smaller version, and nil (0)
\* when there is none.
C23_FirstOlderInIterationOrder ==
    \A k \in 1..Len(olderIndex) :
        LET older == { j \in 1..Len(documents) :
                         /\ j # k
                         /\ documents[j].topic = documents[k].topic
                         /\ documents[j].version < documents[k].version }
        IN  /\ older = {} => olderIndex[k] = 0
            /\ older # {}
                  => /\ olderIndex[k] \in older
                     /\ \A j \in older : olderIndex[k] <= j

C23_Witness ==
    /\ docPc = "returned"
    /\ Len(documents) = 3
    /\ documents[1].url = "c/2025/11/fee-1.pdf"
    /\ documents[2].url = "c/2025/11/fee.pdf"
    /\ documents[3].url = "c/2025/05/fee-2.pdf"
    /\ olderIndex = <<2, 0, 1>>

\* C26: extractVersionNumber returns the values its doc comment lists:
\* "file-1-2.pdf" -> 2, "file-1-1.pdf" -> 1, "Horaland1-2.pdf" -> 2, and
\* "file-1.pdf" -> 0.
C26_VersionAsDocumented ==
    \A i \in 1..Len(documents) :
        /\ documents[i].url = "file-1-2.pdf" => documents[i].version = 2
        /\ documents[i].url = "file-1-1.pdf" => documents[i].version = 1
        /\ documents[i].url = "Horaland1-2.pdf" => documents[i].version = 2
        /\ documents[i].url = "file-1.pdf" => documents[i].version = 0

\* a is more recent than b in the order of their family: the greater
\* (period, version) pair
MoreRecent(a, b) ==
    \/ PeriodNumber(a.yearMonth) > PeriodNumber(b.yearMonth)
    \/ /\ PeriodNumber(a.yearMonth) = PeriodNumber(b.yearMonth)
       /\ a.version > b.version

\* C30: the document findOlderVersion returns for a document is never more
\* recent than that document in the (period, version) order of the family.
C30_OlderIsNotMoreRecent ==
    \A k \in 1..Len(olderIndex) :
        olderIndex[k] # 0
        => ~MoreRecent(documents[olderIndex[k]], documents[k])

(***************************************************************************)
(* Properties of QuestionSearchHandler.Handle, checked under SpecHandler.  *)
(***************************************************************************)
\* every character of s is white space
AllWhitespace(s) == \A i \in 1..Len(s) : At(s, i) \in Spaces

\* the request fails validation, read off what the client sent: a wrong
\* content type, an unreadable or malformed body, no question, an empty or
\* whitespace-only question, or a question longer than maxQuestionLength
FailsValidation ==
    \/ request.contentType \notin {"application/json", ""}
    \/ request.readErr
    \/ request.sent.kind \in {"malformed", "missing"}
    \/ AllWhitespace(request.sent.question)
    \/ Len(request.sent.question) > maxQuestionLength

\* C24: a request that fails validation (missing, empty or whitespace-only
\* question, question longer than maxQuestionLength, malformed JSON, wrong
\* content type) never reaches the service: the service call counter stays
\* 0, the handler never is at or past the call, and the response written is
\* status 400
C24_ValidationBeforeService ==
    (handlerPc # "idle" /\ FailsValidation) =>
        /\ serviceCalls = 0
        /\ handlerPc \notin {"call", "inService"}
        /\ handlerPc = "responded" => status = StatusBadRequest

\* rejections of each kind are answered: a whitespace-only question with
\* an escaped tab, and a question one character too long
C24_Witness ==
    /\ handlerPc = "responded"
    /\ status = StatusBadRequest
    /\ serviceCalls = 0
    /\ request.contentType = "application/json"
    /\ ~request.readErr
    /\ \/ request.sent = [kind |-> "question", question |-> " \t"]
       \/ /\ request.sent.kind = "question"
          /\ ~AllWhitespace(request.sent.question)
          /\ Len(request.sent.question) = maxQuestionLength + 1

\* the errors handleAWSError classifies as resource-not-found: a KB_ERROR
\* wrapping the raw ResourceNotFoundException
IsResourceNotFound(err) ==
    /\ err # NilErr
    /\ err.kind = "bedrock"
    /\ err.code = ErrCodeKnowledgeBase
    /\ err.cause \in RawNotFoundErrors
    /\ err = handleAWSError(err.cause)

\* C25: once the operation has failed with an error handleAWSError
\* classified as resource-not-found, RetryWithBackoff has returned that
\* error: no sleep and no further invocation follows it, whatever the raw
\* message is
C25_NotFoundIsPermanent ==
    IsResourceNotFound(lastErr) => pc = "returned" /\ retErr = lastErr

\* C27: for every RetryAttempts value Config.Validate accepts (0 included),
\* when RetryWithBackoff has returned nil the operation was invoked at least
\* once and its last invocation returned nil
C27_NilReturnMeansSuccess ==
    (pc = "returned" /\ retErr = NilErr) =>
        /\ attemptCount >= 1
        /\ opReturns >= 1
        /\ lastErr = NilErr

SendNeverBlocks ==
    \A i \in 1..N :
        taskPc[i] = "sending" => ~closed /\ Len(results) < N

\* when wg.Wait() has returned every task has sent exactly once, the channel
\* is closed and holds the N results, and the N results are collected
AllCollected ==
    /\ kbPc # "start" /\ kbPc # "wait" /\ N > 0 =>
          /\ closed
          /\ \A i \in 1..N : taskPc[i] = "done" /\ queryCalls[i] = 1
          /\ Len(Collected) = N
    /\ ~closed => Len(results) = Cardinality({i \in 1..N : taskPc[i] = "done"})

\* C28: no source task ever blocks (or panics) on handing off its result,
\* the channel is closed only after the last send, exactly N results are
\* collected, and, every source query returning, the call terminates
C28_NoBlockedSendAndTermination ==
    /\ [](SendNeverBlocks /\ AllCollected)
    /\ <>(kbPc = "returned")

\* all MaxKB tasks have sent while the caller still waits: the buffer is full
C28_Witness ==
    /\ N = MaxKB
    /\ kbPc = "wait"
    /\ ~closed
    /\ Len(results) = N
    /\ \A i \in 1..N : taskPc[i] = "done"

====
